---- MODULE Spec2Model ----
(***************************************************************************)
(* Model of the WebM metadata fixer of src/content-script.js:              *)
(* WebMSeeker.process (lines 298-317) and Decoder (lines 323-381).         *)
(*                                                                         *)
(* A buffer is a sequence of bytes (0..255); the byte at JavaScript offset  *)
(* o is buf[o + 1].  A DataView read outside the buffer throws RangeError, *)
(* which is modelled by the outcome "throw".                               *)
(*                                                                         *)
(* JavaScript numbers are IEEE-754 doubles.  TLC's integers are 32 bits     *)
(* wide, so a double is modelled by a sign, an exponent and a mantissa     *)
(* kept as a little-endian sequence of 12-bit limbs, and every arithmetic  *)
(* step rounds to 53 bits (round to nearest, ties to even) as the double   *)
(* operation does.                                                          *)
(***************************************************************************)
EXTENDS Integers, Sequences, FiniteSets, TLC

(***************************************************************************)
(* Natural numbers of arbitrary size: little-endian sequences of limbs in  *)
(* 0 .. LimbBase - 1 without a most-significant zero limb (<<>> is 0).     *)
(***************************************************************************)
LimbBase == 2 ^ 12

RECURSIVE IntBitLen(_)
IntBitLen(n) == IF n = 0 THEN 0 ELSE 1 + IntBitLen(n \div 2)

LimbBits == IntBitLen(LimbBase) - 1

RECURSIVE BigNorm(_)
BigNorm(a) ==
    IF a = <<>> THEN <<>>
    ELSE IF a[Len(a)] = 0 THEN BigNorm(SubSeq(a, 1, Len(a) - 1))
    ELSE a

RECURSIVE BigFromInt(_)
BigFromInt(n) ==
    IF n = 0 THEN <<>> ELSE <<n % LimbBase>> \o BigFromInt(n \div LimbBase)

RECURSIVE BigToInt(_)
BigToInt(a) ==
    IF a = <<>> THEN 0 ELSE a[1] + LimbBase * BigToInt(Tail(a))

RECURSIVE BigMulSmallC(_, _, _)
BigMulSmallC(a, k, carry) ==
    IF a = <<>> THEN BigFromInt(carry)
    ELSE LET t == a[1] * k + carry
         IN  <<t % LimbBase>> \o BigMulSmallC(Tail(a), k, t \div LimbBase)

\* a * k for 0 <= k <= 2^18
BigMulSmall(a, k) == BigNorm(BigMulSmallC(a, k, 0))

RECURSIVE BigAddC(_, _, _)
BigAddC(a, b, carry) ==
    IF a = <<>> /\ b = <<>> THEN BigFromInt(carry)
    ELSE LET x == IF a = <<>> THEN 0 ELSE a[1]
             y == IF b = <<>> THEN 0 ELSE b[1]
             t == x + y + carry
         IN  <<t % LimbBase>>
             \o BigAddC(IF a = <<>> THEN <<>> ELSE Tail(a),
                        IF b = <<>> THEN <<>> ELSE Tail(b), t \div LimbBase)

BigAdd(a, b) == BigNorm(BigAddC(a, b, 0))

RECURSIVE BigMul(_, _)
BigMul(a, b) ==
    IF b = <<>> \/ a = <<>> THEN <<>>
    ELSE BigAdd(BigMulSmall(a, b[1]),
                LET r == BigMul(a, Tail(b)) IN IF r = <<>> THEN <<>> ELSE <<0>> \o r)

\* Quotient and remainder of a by d, 1 <= d <= 2^18, most significant limb first.
RECURSIVE BigDivSmallR(_, _, _)
BigDivSmallR(a, d, r) ==
    IF a = <<>> THEN [q |-> <<>>, r |-> r]
    ELSE LET t    == r * LimbBase + a[Len(a)]
             rest == BigDivSmallR(SubSeq(a, 1, Len(a) - 1), d, t % d)
         IN  [q |-> rest.q \o <<t \div d>>, r |-> rest.r]

BigDivSmall(a, d) ==
    LET x == BigDivSmallR(a, d, 0) IN [q |-> BigNorm(x.q), r |-> x.r]

BigBitLen(a) ==
    IF a = <<>> THEN 0 ELSE LimbBits * (Len(a) - 1) + IntBitLen(a[Len(a)])

BigIsOdd(a) == a # <<>> /\ a[1] % 2 = 1

BigInc(a) == BigAdd(a, <<1>>)

\* a * 2^k
BigShl(a, k) ==
    IF a = <<>> THEN <<>>
    ELSE [i \in 1..(k \div LimbBits) |-> 0] \o BigMulSmall(a, 2 ^ (k % LimbBits))

\* floor(a / 2^k)
BigShr(a, k) ==
    LET drop == k \div LimbBits
    IN  IF drop >= Len(a) THEN <<>>
        ELSE BigDivSmall(SubSeq(a, drop + 1, Len(a)), 2 ^ (k % LimbBits)).q

\* a mod 2^k # 0
BigLowNonzero(a, k) ==
    LET drop == k \div LimbBits
    IN  \/ \E i \in 1..Len(a) : i <= drop /\ a[i] # 0
        \/ drop < Len(a) /\ a[drop + 1] % (2 ^ (k % LimbBits)) # 0

\* -1, 0, 1 as a < b, a = b, a > b
RECURSIVE BigCmp(_, _)
BigCmp(a, b) ==
    IF Len(a) # Len(b) THEN (IF Len(a) < Len(b) THEN -1 ELSE 1)
    ELSE IF a = <<>> THEN 0
    ELSE IF a[Len(a)] # b[Len(b)] THEN (IF a[Len(a)] < b[Len(b)] THEN -1 ELSE 1)
    ELSE BigCmp(SubSeq(a, 1, Len(a) - 1), SubSeq(b, 1, Len(b) - 1))

\* a - b for a >= b
RECURSIVE BigSubB(_, _, _)
BigSubB(a, b, borrow) ==
    IF a = <<>> THEN <<>>
    ELSE LET y == (IF b = <<>> THEN 0 ELSE b[1]) + borrow
             t == IF a[1] >= y THEN a[1] - y ELSE a[1] + LimbBase - y
         IN  <<t>> \o BigSubB(Tail(a), IF b = <<>> THEN <<>> ELSE Tail(b),
                              IF a[1] >= y THEN 0 ELSE 1)

BigAbsDiff(a, b) ==
    IF BigCmp(a, b) >= 0 THEN BigNorm(BigSubB(a, b, 0)) ELSE BigNorm(BigSubB(b, a, 0))

(***************************************************************************)
(* IEEE-754 rounding.  RoundShift(a, s, sticky) is (a + f) / 2^s rounded   *)
(* to the nearest integer, ties to even, where 0 <= f < 1 is a discarded   *)
(* fraction that is non-zero exactly when sticky holds; s >= 1.            *)
(***************************************************************************)
RoundShift(a, s, sticky) ==
    LET n2    == BigShr(a, s - 1)
        st    == sticky \/ BigLowNonzero(a, s - 1)
        guard == BigIsOdd(n2)
        q     == BigShr(n2, 1)
    IN  IF guard /\ (st \/ BigIsOdd(q)) THEN BigInc(q) ELSE q

(***************************************************************************)
(* Numbers.  A JavaScript number is [cls, neg, m, e]: cls is "nan", "inf", *)
(* "zero" or "fin"; a "fin" number is (-1)^neg * m * 2^e with m a non-zero *)
(* natural of at most 53 bits.  Two records may denote the same number;    *)
(* NumEq compares the numbers.                                              *)
(***************************************************************************)
NaN == [cls |-> "nan", neg |-> FALSE, m |-> <<>>, e |-> 0]
Infinity(neg) == [cls |-> "inf", neg |-> neg, m |-> <<>>, e |-> 0]
Zero(neg) == [cls |-> "zero", neg |-> neg, m |-> <<>>, e |-> 0]
Fin(neg, m, e) == [cls |-> "fin", neg |-> neg, m |-> m, e |-> e]

\* m * 2^e rounded to a double (53 bits); sticky: a non-zero fraction below m
\* was discarded.  The exponents met here stay inside the double's range.
Round53(neg, m, e, sticky) ==
    LET len == BigBitLen(m)
    IN  IF len <= 53 THEN Fin(neg, m, e)
        ELSE Fin(neg, RoundShift(m, len - 53, sticky), e + (len - 53))

\* An unsigned 32-bit integer is kept as its two 16-bit halves.
U32(hi, lo) == [hi |-> hi, lo |-> lo]
U32Big(u) == BigAdd(BigShl(BigFromInt(u.hi), 16), BigFromInt(u.lo))

\* x * u in double arithmetic (u converted to a double exactly)
NumMulU32(x, u) ==
    LET t == U32Big(u)
    IN  CASE x.cls = "nan"  -> NaN
          [] x.cls = "inf"  -> IF t = <<>> THEN NaN ELSE x
          [] x.cls = "zero" -> x
          [] OTHER          -> IF t = <<>> THEN Zero(x.neg)
                               ELSE Round53(x.neg, BigMul(x.m, t), x.e, FALSE)

\* x / 1000 in double arithmetic: the quotient is formed with DivGuard extra
\* bits and rounded once, with the remainder as the sticky bit.
DivGuard == 6 * LimbBits
NumDiv1000(x) ==
    IF x.cls # "fin" THEN x
    ELSE LET d == BigDivSmall(BigShl(x.m, DivGuard), 1000)
         IN  Round53(x.neg, d.q, x.e - DivGuard, d.r # 0)

(***************************************************************************)
(* DataView.  Each read or write at byteOffset off of width w throws       *)
(* RangeError unless off + w <= byteLength (InRange).                      *)
(***************************************************************************)
InRange(buf, off, w) == off >= 0 /\ off + w <= Len(buf)

GetUint8(buf, off) == buf[off + 1]

\* big-endian (littleEndian = false)
GetUint32(buf, off) ==
    U32(buf[off + 1] * 256 + buf[off + 2], buf[off + 3] * 256 + buf[off + 4])

\* binary32: 1 sign bit, 8 exponent bits (bias 127), 23 fraction bits
GetFloat32(buf, off) ==
    LET b0   == buf[off + 1]
        b1   == buf[off + 2]
        neg  == b0 >= 128
        ex   == (b0 % 128) * 2 + (b1 \div 128)
        frac == (b1 % 128) * 65536 + buf[off + 3] * 256 + buf[off + 4]
    IN  CASE ex = 255 /\ frac = 0 -> Infinity(neg)
          [] ex = 255 /\ frac # 0 -> NaN
          [] ex = 0 /\ frac = 0   -> Zero(neg)
          [] ex = 0 /\ frac # 0   -> Fin(neg, BigFromInt(frac), -149)
          [] OTHER                -> Fin(neg, BigFromInt(8388608 + frac), ex - 150)

\* The four bytes of a binary32 bit pattern whose low 31 bits are bits.
F32Bytes(neg, bits) ==
    << (IF neg THEN 128 ELSE 0) + bits \div 16777216,
       (bits \div 65536) % 256, (bits \div 256) % 256, bits % 256 >>

\* Number -> the nearest binary32 (ties to even), as setFloat32 stores it
\* big-endian.  A NaN is stored as the canonical quiet NaN 7FC00000.
Float32Bytes(x) ==
    CASE x.cls = "nan"  -> F32Bytes(FALSE, 2143289344)
      [] x.cls = "inf"  -> F32Bytes(x.neg, 2139095040)
      [] x.cls = "zero" -> F32Bytes(x.neg, 0)
      [] OTHER ->
           LET len == BigBitLen(x.m)
               top == x.e + len - 1              \* 2^top <= |x| < 2^(top+1)
           IN  IF top < -126
               THEN \* subnormal: a multiple of 2^-149
                    LET s == (-149) - x.e
                        f == IF s >= 1 THEN RoundShift(x.m, s, FALSE)
                             ELSE BigShl(x.m, -s)
                    IN  F32Bytes(x.neg, BigToInt(f))
               ELSE LET s  == len - 24
                        m  == IF s >= 1 THEN RoundShift(x.m, s, FALSE)
                              ELSE BigShl(x.m, -s)
                        up == BigBitLen(m) = 25   \* rounded up to 2^24
                        ex == top + 127 + (IF up THEN 1 ELSE 0)
                        fr == IF up THEN 0 ELSE BigToInt(m) - 8388608
                    IN  IF ex >= 255 THEN F32Bytes(x.neg, 2139095040)
                        ELSE F32Bytes(x.neg, ex * 8388608 + fr)

(***************************************************************************)
(* Decoder: tag dictionary and header reader (lines 365-380).              *)
(***************************************************************************)
SegmentId       == U32(6227, 32871)     \* 0x18538067
InfoId          == U32(5449, 43366)     \* 0x1549A966
TimecodeScaleId == U32(42, 55217)       \* 0x2AD7B1
DurationId      == U32(0, 17545)        \* 0x4489

_getTagName(id) ==
    CASE id = SegmentId       -> "Segment"
      [] id = InfoId          -> "Info"
      [] id = TimecodeScaleId -> "TimecodeScale"
      [] id = DurationId      -> "Duration"
      [] OTHER                -> "Unknown"

_getTagType(id) ==
    CASE id = SegmentId       -> "m"
      [] id = InfoId          -> "m"
      [] id = TimecodeScaleId -> "u"
      [] id = DurationId      -> "f"
      [] OTHER                -> "b"

HeaderLength == 5

\* getUint32(offset) and getUint8(offset + 4): both inside the buffer
HeaderReadable(buf, offset) == InRange(buf, offset, 4) /\ InRange(buf, offset + 4, 1)

\* Mutant of _readEbmlHeader: the header's own length is not counted.
_readEbmlHeaderNoLength(buf, offset) ==
    [id           |-> GetUint32(buf, offset),
     size         |-> GetUint8(buf, offset + 4) % 128,
     headerLength |-> 0]

_readEbmlHeader(buf, offset) ==
    [id           |-> GetUint32(buf, offset),
     size         |-> GetUint8(buf, offset + 4) % 128,       \* & 0x7F
     headerLength |-> HeaderLength]

Null == [cls |-> "null"]

\* The element object of lines 334-344; children holds the indices (in
\* elements) of the objects pushed into it.
NewElement(buf, offset) ==
    LET h          == _readEbmlHeader(buf, offset)
        dataOffset == offset + h.headerLength
        type       == _getTagType(h.id)
    IN  [name       |-> _getTagName(h.id),
         type       |-> type,
         dataOffset |-> dataOffset,
         dataSize   |-> h.size,
         children   |-> <<>>,
         value      |-> CASE type = "f" -> GetFloat32(buf, dataOffset)
                          [] type = "u" -> GetUint32(buf, dataOffset)
                          [] OTHER      -> Null]

\* The value read of lines 343-344 stays inside the buffer
ValueReadable(buf, offset) ==
    LET h == _readEbmlHeader(buf, offset)
    IN  _getTagType(h.id) \in {"f", "u"} => InRange(buf, offset + h.headerLength, 4)

\* Array.prototype.find over the objects idx[1], idx[2], ... of els by name:
\* the index of the first match, 0 for undefined.
RECURSIVE FindIn(_, _, _)
FindIn(els, idx, name) ==
    IF idx = <<>> THEN 0
    ELSE IF els[idx[1]].name = name THEN idx[1]
    ELSE FindIn(els, Tail(idx), name)

Find(els, name) == FindIn(els, [i \in 1..Len(els) |-> i], name)

\* Lines 350-362: the hand-stitched tree.
StitchTree(els) ==
    LET segment  == Find(els, "Segment")
        info     == Find(els, "Info")
        duration == Find(els, "Duration")
        timecode == Find(els, "TimecodeScale")
        kids     == (IF duration # 0 THEN <<duration>> ELSE <<>>)
                    \o (IF timecode # 0 THEN <<timecode>> ELSE <<>>)
    IN  IF segment = 0 \/ info = 0 THEN els
        ELSE [els EXCEPT ![info].children = @ \o kids,
                         ![segment].children = Append(@, info)]

(***************************************************************************)
(* WebMSeeker.process (lines 298-317).                                     *)
(***************************************************************************)
\* Mutant of CorrectedDuration: one division by 1000 is missing.
CorrectedDurationOnce(d, t) == NumDiv1000(NumMulU32(d, t))

\* Line 310: durationEl.value * timecodeScaleEl.value / 1000 / 1000
CorrectedDuration(d, t) == NumDiv1000(NumDiv1000(NumMulU32(d, t)))

\* Mutant of DurationBuffer: setFloat32(0, duration, true), little-endian.
DurationBufferLittleEndian(duration) ==
    LET b == Float32Bytes(duration) IN <<b[4], b[3], b[2], b[1]>>

\* Line 311-312: a 4-byte buffer holding the float32
DurationBuffer(duration) == Float32Bytes(duration)

\* new Uint8Array(buffer, byteOffset, length) throws RangeError unless the
\* view lies inside the buffer
ViewInRange(buf, byteOffset, length) == byteOffset + length <= Len(buf)

\* TypedArray.prototype.set(src) throws RangeError, before any byte is
\* written, unless src fits in the view
SetFits(length, src) == Len(src) <= length

\* buf with the bytes src stored from byteOffset on
SetBytes(buf, byteOffset, src) ==
    [i \in 1..Len(buf) |->
        IF i - 1 >= byteOffset /\ i - 1 < byteOffset + Len(src)
        THEN src[i - byteOffset] ELSE buf[i]]

\* Line 313 succeeds: the view is created and src fits in it
SetSucceeds(buf, byteOffset, length, src) ==
    ViewInRange(buf, byteOffset, length) /\ SetFits(length, src)

\* Mutant of BufferAfterSet: the bytes of src that fit are stored before the
\* RangeError is thrown.
BufferAfterSetPartial(buf, byteOffset, length, src) ==
    IF ViewInRange(buf, byteOffset, length)
    THEN SetBytes(buf, byteOffset,
                  SubSeq(src, 1, IF Len(src) <= length THEN Len(src) ELSE length))
    ELSE buf

\* Line 313: the buffer after
\*   new Uint8Array(buffer, byteOffset, length).set(src)
\* whether it returns or throws
BufferAfterSet(buf, byteOffset, length, src) ==
    IF SetSucceeds(buf, byteOffset, length, src)
    THEN SetBytes(buf, byteOffset, src)
    ELSE buf

(***************************************************************************)
(* Input buffers.  A recording is described by a document and encoded to   *)
(* bytes; the model checks process on the bytes of every document of Docs. *)
(*   layout "ebml"   real EBML: variable-length IDs (Duration 44 89,       *)
(*                   TimecodeScale 2A D7 B1), masters sized by content     *)
(*   layout "nested" the 4-byte IDs the decoder compares with, masters     *)
(*                   sized by their content                                *)
(*   layout "flat"   the 4-byte IDs, masters of size 0 followed by the     *)
(*                   leaves                                                *)
(* seg: "none", "sized" or "unknown" (size byte FF: unknown length).       *)
(* extra: "head" an EBML header element first (an "ebml" document always   *)
(* starts with one), "mid" a Void element between the leaves, "tail" an    *)
(* empty Void element last.  cut: bytes missing at the end.                *)
(***************************************************************************)
MaxCut == 2

DurPayloads == { <<69, 156, 64, 0>>,                    \* float32 5000.0
                 <<63, 128, 0, 0>>,                     \* float32 1.0
                 <<64, 179, 136, 0, 0, 0, 0, 0>>,       \* float64 5000.0
                 <<63, 128>> }                          \* 2 bytes
TsPayloads  == { <<0, 15, 66, 64>>,                     \* 1000000
                 <<0, 3, 13, 64>>,                      \* 200000
                 <<15, 66, 64>> }                       \* 1000000 in 3 bytes
NoPayload   == <<>>

Docs ==
    { d \in [layout : {"ebml", "nested", "flat"},
             seg    : {"none", "sized", "unknown"},
             info   : BOOLEAN,
             dur    : DurPayloads \cup {NoPayload},
             ts     : TsPayloads \cup {NoPayload},
             durFirst : BOOLEAN,
             extra  : {"none", "head", "mid", "tail"},
             cut    : 0..MaxCut] :
        /\ (d.dur = NoPayload \/ d.ts = NoPayload) => d.durFirst
        /\ d.layout = "ebml" => d.extra # "head" }

SizeByte(n) == 128 + n

EbmlHead == <<26, 69, 223, 163, SizeByte(7), 66, 130, SizeByte(4), 119, 101, 98, 109>>
SegmentIdBytes == <<24, 83, 128, 103>>
InfoIdBytes == <<21, 73, 169, 102>>
DurationIdBytes(d) == IF d.layout = "ebml" THEN <<68, 137>> ELSE <<0, 0, 68, 137>>
TimecodeScaleIdBytes(d) == IF d.layout = "ebml" THEN <<42, 215, 177>> ELSE <<0, 42, 215, 177>>
VoidIdBytes(d) == IF d.layout = "ebml" THEN <<236>> ELSE <<0, 0, 0, 236>>

DurBytes(d) ==
    IF d.dur = NoPayload THEN <<>>
    ELSE DurationIdBytes(d) \o <<SizeByte(Len(d.dur))>> \o d.dur
TsBytes(d) ==
    IF d.ts = NoPayload THEN <<>>
    ELSE TimecodeScaleIdBytes(d) \o <<SizeByte(Len(d.ts))>> \o d.ts
MidBytes(d) == IF d.extra = "mid" THEN VoidIdBytes(d) \o <<SizeByte(1), 0>> ELSE <<>>
LeafBytes(d) ==
    IF d.durFirst THEN DurBytes(d) \o MidBytes(d) \o TsBytes(d)
    ELSE TsBytes(d) \o MidBytes(d) \o DurBytes(d)
InfoBytes(d) ==
    IF d.info
    THEN InfoIdBytes \o <<SizeByte(IF d.layout = "flat" THEN 0 ELSE Len(LeafBytes(d)))>>
         \o LeafBytes(d)
    ELSE LeafBytes(d)
SegmentBytes(d) ==
    CASE d.seg = "none"    -> InfoBytes(d)
      [] d.seg = "unknown" -> SegmentIdBytes \o <<255>> \o InfoBytes(d)
      [] OTHER             ->
           SegmentIdBytes
           \o <<SizeByte(IF d.layout = "flat" THEN 0 ELSE Len(InfoBytes(d)))>>
           \o InfoBytes(d)
DocBytes(d) ==
    LET all == (IF d.extra = "head" \/ d.layout = "ebml" THEN EbmlHead ELSE <<>>)
               \o SegmentBytes(d)
               \o (IF d.extra = "tail" THEN VoidIdBytes(d) \o <<SizeByte(0)>> ELSE <<>>)
    IN  SubSeq(all, 1, IF Len(all) >= d.cut THEN Len(all) - d.cut ELSE 0)

(***************************************************************************)
(* State of the content script's App, its capture sessions and their       *)
(* MediaRecorders, and of the messages between content script and          *)
(* background script (content-script.js lines 15-284 and 387-458,          *)
(* background.js).  Objects are numbered in order of creation: captures[s] *)
(* is the s-th AdvancedVideoCapture with its CaptureUI, recorders[r] the   *)
(* r-th MediaRecorder; the timer and the stop-shortcut listener created by *)
(* the startCapture that created recorder r are numbered r too.  0 stands  *)
(* for null.                                                               *)
(***************************************************************************)
VARIABLES
    videoCapture,   \* App.videoCapture: 0 or the number of a capture
    captures,       \* sequence of [recordingActive, mediaRecorder, chunks,
                    \*   timerInterval, stopShortcutListener: the fields of
                    \*   AdvancedVideoCapture; attached: ui.captureUI is in the
                    \*   document; recordingState: stop button shown, start
                    \*   button hidden]
    recorders,      \* sequence of [capture, state, stopPending (the task that
                    \*   fires dataavailable and stop is queued), data (what
                    \*   dataavailable delivered: "none" before)]
    saves,          \* saveRecording calls that reached line 259: [capture,
                    \*   rec (the recorder whose stop event made the call),
                    \*   blob, outcome (how the promise of process(blob)
                    \*   settles), state]
    keyListeners,   \* stop-shortcut listeners registered on window
    timers,         \* intervals running
    inbox,          \* messages in flight to the content script
    sent            \* messages sent to the background script, in order

appVars == <<videoCapture, captures, recorders, saves, keyListeners, timers,
             inbox, sent>>

\* new App() (lines 388-391, 458) on a page; nothing sent or received yet.
AppInit ==
    /\ videoCapture = 0
    /\ captures = <<>>
    /\ recorders = <<>>
    /\ saves = <<>>
    /\ keyListeners = {}
    /\ timers = {}
    /\ inbox = <<>>
    /\ sent = <<>>

(***************************************************************************)
(* The state of the earlier background script (src/unnamed/part_000, lines *)
(* 1-48), which keeps the object URLs of the downloads it started.         *)
(***************************************************************************)
VARIABLES
    objectUrls,     \* the Map of line 7: a function from download ids to URLs
    downloads,      \* the chrome.downloads.download calls made: [url, id (0
                    \*   until the download has started), state, callback,
                    \*   events (onChanged events fired for it)]
    revoked,        \* the URLs URL.revokeObjectURL was called with, in order
    notifications   \* the messages chrome.notifications.create was called with

bgVars == <<objectUrls, downloads, revoked, notifications>>

BgInit ==
    /\ objectUrls = <<>>
    /\ downloads = <<>>
    /\ revoked = <<>>
    /\ notifications = <<>>

(***************************************************************************)
(* The state of the earlier content script (src/unnamed/part_000, lines    *)
(* 49-436; src/unnamed/part_001 is alike in what is kept here).            *)
(***************************************************************************)
VARIABLES
    oldVideoCapture,  \* window.videoCapture: 0 for undefined, else a session
    oldCaptures,      \* the AdvancedVideoCapture objects created, each
                      \*   [recordingActive, captureUI (its panel is attached
                      \*   to the document), stopShown (start button hidden,
                      \*   stop button shown), recorder (the state of
                      \*   this.mediaRecorder, "null" when there is none)]
    oldKeyListeners   \* sessions whose stopRecordingShortcut is registered

oldVars == <<oldVideoCapture, oldCaptures, oldKeyListeners>>

OldInit ==
    /\ oldVideoCapture = 0
    /\ oldCaptures = <<>>
    /\ oldKeyListeners = {}

\* What is neither the WebMSeeker's nor the content script's
extVars == <<bgVars, oldVars>>

ExtInit == BgInit /\ OldInit

(***************************************************************************)
(* State.  One WebMSeeker with its Decoder; process is called on a blob,   *)
(* and may be called again on the blob it returned or on the same blob.    *)
(***************************************************************************)
VARIABLES
    doc,        \* the document the first blob was encoded from
    input,      \* bytes of the blob passed to the call in progress
    buffer,     \* the ArrayBuffer of line 299 (decode reads, line 313 writes)
    pc,         \* "start", "decode", "find", "done"
    offset,     \* Decoder.decode's offset
    elements,   \* Decoder.decode's elements / process's elms
    outcome,    \* how the call ended: "none" while running, "throw" (RangeError),
                \* "blob" (line 304), "patched" or "same" (line 316)
    result,     \* bytes of the blob the call returned
    calls       \* the calls completed so far: [input, outcome, result, elements]

seekerVars == <<doc, input, buffer, pc, offset, elements, outcome, result, calls>>

vars == <<seekerVars, appVars, extVars>>

MaxCalls == 2

Init ==
    /\ doc \in Docs
    /\ input = DocBytes(doc)
    /\ buffer = <<>>
    /\ pc = "start"
    /\ offset = 0
    /\ elements = <<>>
    /\ outcome = "none"
    /\ result = <<>>
    /\ calls = <<>>
    /\ AppInit
    /\ ExtInit

\* The call ends: the promise settles with out; res is the returned blob.
Finish(out, res) ==
    /\ pc' = "done"
    /\ outcome' = out
    /\ result' = res
    /\ calls' = Append(calls, [input |-> input, outcome |-> out, result |-> res,
                               elements |-> elements])

\* Mutant of Begin: elements is kept from the previous call, as if it were a
\* field of the Decoder instead of a local of decode.
BeginKeepsElements ==
    /\ pc = "start"
    /\ buffer' = input
    /\ offset' = 0
    /\ pc' = "decode"
    /\ UNCHANGED <<doc, input, elements, outcome, result, calls>>
    /\ UNCHANGED <<appVars, extVars>>

\* Lines 298-299 and 325-327: the buffer of the blob, offset 0, no elements.
Begin ==
    /\ pc = "start"
    /\ buffer' = input
    /\ offset' = 0
    /\ elements' = <<>>
    /\ pc' = "decode"
    /\ UNCHANGED <<doc, input, outcome, result, calls>>
    /\ UNCHANGED <<appVars, extVars>>

\* Lines 329-348: one iteration of the element walk.
DecodeElement ==
    /\ pc = "decode"
    /\ offset < Len(buffer)
    /\ IF HeaderReadable(buffer, offset) /\ ValueReadable(buffer, offset)
       THEN LET el == NewElement(buffer, offset)
            IN  /\ elements' = Append(elements, el)
                /\ offset' = el.dataOffset + el.dataSize
                /\ UNCHANGED <<pc, outcome, result, calls>>
       ELSE /\ Finish("throw", <<>>)
            /\ UNCHANGED <<offset, elements>>
    /\ UNCHANGED <<doc, input, buffer>>
    /\ UNCHANGED <<appVars, extVars>>

\* Lines 350-362: the walk is over; stitch the tree and return it.
DecodeReturn ==
    /\ pc = "decode"
    /\ offset >= Len(buffer)
    /\ elements' = StitchTree(elements)
    /\ pc' = "find"
    /\ UNCHANGED <<doc, input, buffer, offset, outcome, result, calls>>
    /\ UNCHANGED <<appVars, extVars>>

\* Lines 302-316.
Patch ==
    /\ pc = "find"
    /\ LET segmentEl == Find(elements, "Segment")
           infoEl    == IF segmentEl # 0
                        THEN FindIn(elements, elements[segmentEl].children, "Info")
                        ELSE 0
       IN  IF infoEl = 0
           THEN Finish("blob", input) /\ UNCHANGED buffer
           ELSE
             LET durationEl      == FindIn(elements, elements[infoEl].children, "Duration")
                 timecodeScaleEl == FindIn(elements, elements[infoEl].children, "TimecodeScale")
             IN  IF durationEl # 0 /\ timecodeScaleEl # 0
                 THEN LET dEl == elements[durationEl]
                          duration == CorrectedDuration(dEl.value,
                                                        elements[timecodeScaleEl].value)
                          src == DurationBuffer(duration)
                      IN  /\ buffer' = BufferAfterSet(buffer, dEl.dataOffset,
                                                       dEl.dataSize, src)
                          /\ IF SetSucceeds(buffer, dEl.dataOffset, dEl.dataSize, src)
                             THEN Finish("patched", buffer')
                             ELSE Finish("throw", <<>>)
                 ELSE Finish("same", buffer) /\ UNCHANGED buffer
    /\ UNCHANGED <<doc, input, offset, elements>>
    /\ UNCHANGED <<appVars, extVars>>

\* saveRecording (line 259) or any other caller passes a blob to process
\* again: the blob returned by the last call, or the last call's blob.
CallAgain ==
    /\ pc = "done"
    /\ Len(calls) < MaxCalls
    /\ \E again \in BOOLEAN :
          input' = IF again \/ outcome = "throw" THEN input ELSE result
    /\ pc' = "start"
    /\ outcome' = "none"
    /\ result' = <<>>
    /\ UNCHANGED <<doc, buffer, offset, elements, calls>>
    /\ UNCHANGED <<appVars, extVars>>

Next == Begin \/ DecodeElement \/ DecodeReturn \/ Patch \/ CallAgain

Spec == Init /\ [][Next]_vars

\* decode is a synchronous loop (lines 329-348, then 350-362): an iteration
\* that can run does run.
LiveSpec == Spec /\ WF_vars(DecodeElement) /\ WF_vars(DecodeReturn)

(***************************************************************************)
(* Definitions the properties below are stated with.                       *)
(***************************************************************************)
\* The first call of process is over.
FirstDone == pc = "done" /\ Len(calls) = 1

\* A valid WebM file: real EBML, complete, a float Duration of 4 or 8 bytes.
ValidWebM(d) ==
    /\ d.layout = "ebml"
    /\ d.cut = 0
    /\ d.dur # NoPayload => Len(d.dur) \in {4, 8}

\* The document holds Segment.Info.Duration and Segment.Info.TimecodeScale.
HasDurationAndScale(d) ==
    d.seg # "none" /\ d.info /\ d.dur # NoPayload /\ d.ts # NoPayload

\* Something of Segment, Info, Duration, TimecodeScale is not in the document.
MissingMetadata(d) == ~HasDurationAndScale(d)

\* The last element of the document lost bytes: its header stops before the
\* 5th byte or its payload runs past the end of the buffer.
Truncated(d) ==
    /\ d.cut >= 1
    /\ d.extra # "tail"
    /\ Len(DocBytes([d EXCEPT !.cut = 0])) > d.cut

\* Offset of the Duration payload in the bytes of document d.
DurationPayloadOffset(d) ==
    (IF d.extra = "head" \/ d.layout = "ebml" THEN Len(EbmlHead) ELSE 0)
    + (IF d.seg # "none" THEN Len(SegmentIdBytes) + 1 ELSE 0)
    + (IF d.info THEN Len(InfoIdBytes) + 1 ELSE 0)
    + (IF d.durFirst THEN 0 ELSE Len(TsBytes(d)) + Len(MidBytes(d)))
    + Len(DurationIdBytes(d)) + 1

\* The Duration and TimecodeScale elements process works on (line 306-307):
\* the first of each name, as StitchTree puts them under Info.
DurationEl(els) == els[Find(els, "Duration")]
TimecodeScaleEl(els) == els[Find(els, "TimecodeScale")]

OneMillion == U32(15, 16960)

\* What DataView.setFloat64 stores for number x (binary64, big-endian; the
\* exponents met here are those of normal numbers).
Float64Bytes(x) ==
    CASE x.cls = "nan"  -> <<127, 248, 0, 0, 0, 0, 0, 0>>
      [] x.cls = "inf"  -> <<(IF x.neg THEN 255 ELSE 127), 240, 0, 0, 0, 0, 0, 0>>
      [] x.cls = "zero" -> <<(IF x.neg THEN 128 ELSE 0), 0, 0, 0, 0, 0, 0, 0>>
      [] OTHER ->
           LET len == BigBitLen(x.m)
               m   == BigShl(x.m, 53 - len)          \* 53 bits, 5 limbs
               ex  == x.e + len - 1 + 1023
           IN  << (IF x.neg THEN 128 ELSE 0) + ex \div 16,
                  (ex % 16) * 16 + (m[5] - 16),
                  m[4] \div 16, (m[4] % 16) * 16 + m[3] \div 256, m[3] % 256,
                  m[2] \div 16, (m[2] % 16) * 16 + m[1] \div 256, m[1] % 256 >>

\* The low 31 bits of the binary32 at offset off.
F32Bits(buf, off) ==
    (buf[off + 1] % 128) * 16777216 + buf[off + 2] * 65536
    + buf[off + 3] * 256 + buf[off + 4]

Min(S) == CHOOSE x \in S : \A y \in S : x <= y

\* | w - d * t / 10^6 | * 10^6 / 2^x for a finite or zero w, a finite d
\* and x at most the exponents of w and d.
DistanceToExact(w, d, t, x) ==
    LET a == IF w.cls = "fin"
             THEN BigShl(BigMul(w.m, BigFromInt(1000000)), w.e - x) ELSE <<>>
        b == BigShl(BigMul(d.m, U32Big(t)), d.e - x)
    IN  IF w.cls = "fin" /\ w.neg # d.neg THEN BigAdd(a, b) ELSE BigAbsDiff(a, b)

\* The binary32 at offset off of buf is a binary32 nearest to d * t / 10^6:
\* it is finite, and neither neighbouring binary32 is nearer.
NearestToExact(buf, off, d, t) ==
    LET v    == GetFloat32(buf, off)
        bits == F32Bits(buf, off)
        neg  == buf[off + 1] >= 128
        up   == GetFloat32(F32Bytes(neg, bits + 1), 0)
        dn   == IF bits = 0 THEN v ELSE GetFloat32(F32Bytes(neg, bits - 1), 0)
        x    == Min({v.e, up.e, dn.e, d.e})
        dist == DistanceToExact(v, d, t, x)
    IN  /\ v.cls \in {"fin", "zero"}
        /\ up.cls = "fin" => BigCmp(dist, DistanceToExact(up, d, t, x)) <= 0
        /\ BigCmp(dist, DistanceToExact(dn, d, t, x)) <= 0

(***************************************************************************)
(* C1  For every valid WebM buffer that contains Segment.Info.Duration and *)
(* TimecodeScale, process returns a buffer of the same length as the       *)
(* input, equal to the input at every byte outside the Duration payload.   *)
(* Violated: process rejects with RangeError on such a file when the       *)
(* fixed-width header walk ends inside the last element (src lines         *)
(* 365-370, 329-330).                                                      *)
(***************************************************************************)
C1_ValidWebMFrame ==
    (FirstDone /\ ValidWebM(doc) /\ HasDurationAndScale(doc)) =>
        /\ outcome # "throw"
        /\ Len(result) = Len(input)
        /\ \A i \in 1..Len(input) :
              (i - 1 < DurationPayloadOffset(doc)
               \/ i - 1 >= DurationPayloadOffset(doc) + Len(doc.dur))
              => result[i] = input[i]

(***************************************************************************)
(* C2  For every buffer that is not valid EBML (a header truncated before  *)
(* its 5th byte, a payload running past the end), process completes        *)
(* without an exception and returns the input bytes.                       *)
(* Violated: the DataView reads of lines 367-368 and 343-344 throw         *)
(* RangeError and nothing catches it.                                      *)
(***************************************************************************)
C2_MalformedReturnsInput ==
    (FirstDone /\ Truncated(doc)) => (outcome # "throw" /\ result = input)

(***************************************************************************)
(* C3  For every buffer in which Duration or TimecodeScale is missing, or  *)
(* Segment or Info is missing, process returns the input bytes.  Stated    *)
(* here for the valid WebM files among them.                               *)
(* Violated: the walk throws RangeError on some of them (C2).              *)
(***************************************************************************)
C3_MissingMetadataReturnsInput ==
    (FirstDone /\ ValidWebM(doc) /\ MissingMetadata(doc)) =>
        (outcome # "throw" /\ result = input)

(***************************************************************************)
(* C4  When Duration and TimecodeScale are both found, the Duration        *)
(* payload is overwritten with a big-endian float of the payload's width:  *)
(* a binary32 for 4 bytes, a binary64 for 8 bytes.                         *)
(* Violated: line 311-312 always encode 4 bytes.                           *)
(***************************************************************************)
C4_PatchMatchesWidth ==
    outcome = "patched" =>
        LET dEl      == DurationEl(elements)
            duration == CorrectedDuration(dEl.value, TimecodeScaleEl(elements).value)
            payload  == SubSeq(result, dEl.dataOffset + 1, dEl.dataOffset + dEl.dataSize)
        IN  /\ dEl.dataSize = 4 => payload = Float32Bytes(duration)
            /\ dEl.dataSize = 8 => payload = Float64Bytes(duration)

C7_OverrunFails ==
    (pc \in {"find", "done"} /\ outcome # "throw") =>
        \A i \in 1..Len(elements) :
            elements[i].dataOffset + elements[i].dataSize <= Len(buffer)

(***************************************************************************)
(* C8  Whenever process fails or bails out (RangeError, missing metadata,  *)
(* a Duration payload that cannot hold the value), the buffer holds the    *)
(* input bytes: no outcome leaves part of a patch in it.                   *)
(***************************************************************************)
C8_NoPartialPatch ==
    (pc \in {"decode", "find"} \/ outcome \in {"throw", "blob", "same"})
    => buffer = input

\* C8 witness: line 313 threw on a Duration payload shorter than 4 bytes.
C8_Witness ==
    /\ outcome = "throw"
    /\ offset >= Len(buffer)
    /\ Find(elements, "Info") # 0
    /\ Len(elements[Find(elements, "Info")].children) = 2
    /\ DurationEl(elements).dataSize < 4

(***************************************************************************)
(* C9  The width of an element ID is taken from the leading bits of its    *)
(* first byte, so Duration (44 89), TimecodeScale (2A D7 B1), Segment and  *)
(* Info are recognised by name and the size is read from the byte right    *)
(* after the ID.                                                           *)
(* Violated: line 367 always reads 4 ID bytes and line 368 the 5th byte.   *)
(***************************************************************************)
EbmlIdWidth(b) ==
    CASE b >= 128 -> 1 [] b >= 64 -> 2 [] b >= 32 -> 3 [] b >= 16 -> 4 [] OTHER -> 0

EbmlName(idBytes) ==
    CASE idBytes = SegmentIdBytes   -> "Segment"
      [] idBytes = InfoIdBytes      -> "Info"
      [] idBytes = <<42, 215, 177>> -> "TimecodeScale"
      [] idBytes = <<68, 137>>      -> "Duration"
      [] OTHER                      -> "Unknown"

C9_IdWidthFromLeadingBits ==
    [][ (pc = "decode" /\ Len(elements') = Len(elements) + 1) =>
          LET w  == EbmlIdWidth(buffer[offset + 1])
              el == elements'[Len(elements')]
          IN  (w > 0 /\ offset + w + 1 <= Len(buffer)) =>
                /\ el.name = EbmlName(SubSeq(buffer, offset + 1, offset + w))
                /\ buffer[offset + w + 1] \in 128..254 =>
                      /\ el.dataOffset = offset + w + 1
                      /\ el.dataSize = buffer[offset + w + 1] - 128 ]_vars

(***************************************************************************)
(* C10  A size whose masked value is all ones denotes unknown length: the  *)
(* element extends to the end of its parent range (here the buffer, every  *)
(* element being read at top level).                                       *)
(* Violated: line 368 turns the size byte FF into the size 127.            *)
(***************************************************************************)
C10_UnknownSizeExtendsToEnd ==
    \A i \in 1..Len(elements) :
        (/\ elements[i].name \in {"Segment", "Info"}
         /\ buffer[elements[i].dataOffset] = 255)
        => elements[i].dataOffset + elements[i].dataSize = Len(buffer)

(***************************************************************************)
(* C11  A leaf value is decoded from exactly its own payload bytes: an     *)
(* unsigned integer is the big-endian integer of its dataSize bytes, a     *)
(* float is decoded with width 4 or 8 according to dataSize, and decoding  *)
(* fails for a float payload of any other size.  Stated for the elements   *)
(* whose payload lies inside the buffer, unsigned payloads of at most 4    *)
(* bytes.                                                                  *)
(* Violated: lines 343-344 read 4 bytes at dataOffset whatever dataSize    *)
(* is.                                                                     *)
(***************************************************************************)
\* The big-endian unsigned integer of at most 4 bytes.
UintOfPayload(payload) ==
    GetUint32([i \in 1..(4 - Len(payload)) |-> 0] \o payload, 0)

\* Number v is what payload (4 or 8 bytes, big-endian IEEE-754) encodes.
FloatOfPayload(v, payload) ==
    CASE Len(payload) = 4 -> v = GetFloat32(payload, 0)
      [] Len(payload) = 8 -> v.cls = "fin" /\ Float64Bytes(v) = payload
      [] OTHER            -> FALSE

C11_LeafFromOwnPayload ==
    pc = "find" =>
        \A i \in 1..Len(elements) :
            LET el      == elements[i]
                payload == SubSeq(buffer, el.dataOffset + 1,
                                  el.dataOffset + el.dataSize)
            IN  el.dataOffset + el.dataSize <= Len(buffer) =>
                  /\ (el.type = "u" /\ el.dataSize <= 4)
                     => el.value = UintOfPayload(payload)
                  /\ el.type = "f" => FloatOfPayload(el.value, payload)

(***************************************************************************)
(* C12  In the tree the decoder returns, containment follows byte ranges:  *)
(* an element is a child of a master element only if its bytes, header     *)
(* included, lie inside that master's payload range; so process patches a  *)
(* Duration only when it lies inside an Info that lies inside Segment.     *)
(* Violated: lines 350-362 link the first Segment, Info, Duration and      *)
(* TimecodeScale of the flat walk by name, wherever they are.              *)
(***************************************************************************)
\* Element c, header included, lies inside the payload range of element p.
Inside(c, p) ==
    /\ c.dataOffset - HeaderLength >= p.dataOffset
    /\ c.dataOffset + c.dataSize <= p.dataOffset + p.dataSize

C12_ContainmentByRange ==
    pc \in {"find", "done"} =>
        \A i \in 1..Len(elements) :
            \A k \in 1..Len(elements[i].children) :
                Inside(elements[elements[i].children[k]], elements[i])

(***************************************************************************)
(* C13  The tag dictionary is total: every ID other than those of Segment, *)
(* Info, TimecodeScale and Duration is Unknown, of kind binary; and the    *)
(* decoder skips an unknown element by advancing past its payload, without *)
(* decoding a value and without failing.  Stated for each step of the walk *)
(* that stands at a complete element (an ID whose width its leading bits   *)
(* give, a one-byte size, the payload) with an unknown ID.                 *)
(* Violated: the header read of lines 367-368 takes 5 bytes, so it throws  *)
(* RangeError on an unknown element shorter than that at the end of the    *)
(* buffer, and it advances by a size taken from the wrong byte when the ID *)
(* is not 4 bytes wide.                                                    *)
(***************************************************************************)
C13_UnknownSkipped ==
    [][ (pc = "decode" /\ offset < Len(buffer)) =>
          LET w == EbmlIdWidth(buffer[offset + 1])
          IN  (/\ w > 0
               /\ offset + w + 1 <= Len(buffer)
               /\ EbmlName(SubSeq(buffer, offset + 1, offset + w)) = "Unknown"
               /\ buffer[offset + w + 1] \in 128..254
               /\ offset + w + 1 + (buffer[offset + w + 1] - 128) <= Len(buffer))
              => /\ outcome' # "throw"
                 /\ Len(elements') = Len(elements) + 1
                 /\ elements'[Len(elements')].name = "Unknown"
                 /\ elements'[Len(elements')].type = "b"
                 /\ elements'[Len(elements')].value = Null
                 /\ offset' = offset + w + 1 + (buffer[offset + w + 1] - 128) ]_vars

(***************************************************************************)
(* C14  Decoder.decode terminates on every finite buffer: the read offset  *)
(* strictly increases on every iteration of the loop, no iteration runs    *)
(* once the offset has reached or passed the end of the buffer, and every  *)
(* walk ends (decode returns or throws).                                   *)
(***************************************************************************)
C14_DecodeTerminates ==
    /\ [][ pc = "decode" =>
             /\ Len(elements') > Len(elements) => offset < Len(buffer)
             /\ pc' = "decode" => (offset' > offset /\ offset < Len(buffer)) ]_vars
    /\ (pc = "decode" ~> pc \in {"find", "done"})

\* C14 witness: a walk of at least three iterations has ended at or past
\* the end of the buffer.
C14_Witness ==
    /\ pc = "find"
    /\ Len(elements) >= 3
    /\ offset >= Len(buffer)

(***************************************************************************)
(* process and decode as functions of the blob's bytes: what one call      *)
(* computes from a fresh buffer (lines 298-317 and 324-363).               *)
(***************************************************************************)
\* Lines 329-348 from offset on, els being the elements pushed so far, then
\* lines 350-362.
RECURSIVE DecodeFrom(_, _, _)
DecodeFrom(buf, off, els) ==
    IF off < Len(buf)
    THEN IF HeaderReadable(buf, off) /\ ValueReadable(buf, off)
         THEN LET el == NewElement(buf, off)
              IN  DecodeFrom(buf, el.dataOffset + el.dataSize, Append(els, el))
         ELSE [threw |-> TRUE, elements |-> els]
    ELSE [threw |-> FALSE, elements |-> StitchTree(els)]

decode(buf) == DecodeFrom(buf, 0, <<>>)

\* The outcome of process(blob) and the bytes of the blob it returns.
process(bytes) ==
    LET dec       == decode(bytes)
        elms      == dec.elements
        segmentEl == Find(elms, "Segment")
        infoEl    == IF segmentEl # 0
                     THEN FindIn(elms, elms[segmentEl].children, "Info") ELSE 0
        durationEl      == FindIn(elms, elms[infoEl].children, "Duration")
        timecodeScaleEl == FindIn(elms, elms[infoEl].children, "TimecodeScale")
        dEl       == elms[durationEl]
        src       == DurationBuffer(CorrectedDuration(dEl.value,
                                                      elms[timecodeScaleEl].value))
    IN  CASE dec.threw  -> [outcome |-> "throw", result |-> <<>>]
          [] infoEl = 0 -> [outcome |-> "blob", result |-> bytes]
          [] durationEl = 0 \/ timecodeScaleEl = 0 ->
                           [outcome |-> "same", result |-> bytes]
          [] SetSucceeds(bytes, dEl.dataOffset, dEl.dataSize, src) ->
                           [outcome |-> "patched",
                            result  |-> SetBytes(bytes, dEl.dataOffset, src)]
          [] OTHER      -> [outcome |-> "throw", result |-> <<>>]

(***************************************************************************)
(* C15  process is deterministic and stateless across calls: the outcome   *)
(* of every call and the bytes it returns are those one call on a fresh    *)
(* WebMSeeker computes from the input bytes, whatever the same WebMSeeker  *)
(* and Decoder processed before; so two calls on byte-identical inputs     *)
(* end alike.                                                              *)
(***************************************************************************)
C15_Stateless ==
    /\ \A i \in 1..Len(calls) :
          /\ calls[i].outcome = process(calls[i].input).outcome
          /\ calls[i].result = process(calls[i].input).result
    /\ \A i, j \in 1..Len(calls) :
          calls[i].input = calls[j].input =>
              /\ calls[i].outcome = calls[j].outcome
              /\ calls[i].result = calls[j].result

\* C15 witness: after a first call that patched its buffer, the same
\* WebMSeeker patched a different buffer.
C15_Witness ==
    /\ Len(calls) = 2
    /\ calls[1].outcome = "patched"
    /\ calls[2].outcome = "patched"
    /\ calls[2].input # calls[1].input
    /\ calls[2].result # calls[2].input

(***************************************************************************)
(* The content script: CaptureUI, AdvancedVideoCapture and App.  A method  *)
(* is a function of the heap h, the record of the variables it may write.  *)
(***************************************************************************)
\* Bounds: AdvancedVideoCapture objects created, capture setups attempted
\* (each creates a MediaRecorder or throws before it does), messages in
\* flight to the content script.
MaxCaptures == 2
MaxStarts == 2
MaxInbox == 1

Heap ==
    [videoCapture |-> videoCapture, captures |-> captures,
     recorders |-> recorders, keyListeners |-> keyListeners,
     timers |-> timers, sent |-> sent]

Becomes(h) ==
    /\ videoCapture' = h.videoCapture
    /\ captures' = h.captures
    /\ recorders' = h.recorders
    /\ keyListeners' = h.keyListeners
    /\ timers' = h.timers
    /\ sent' = h.sent

\* Capture setups that threw before a MediaRecorder was created
StreamErrors(msgs) == Cardinality({i \in 1..Len(msgs) : msgs[i].error = "stream"})

Within(h) ==
    /\ Len(h.captures) <= MaxCaptures
    /\ Len(h.recorders) + StreamErrors(h.sent) <= MaxStarts

\* new AdvancedVideoCapture(new CaptureUI(...)): lines 20-33, 39-69, 152-160
NewCapture ==
    [recordingActive |-> FALSE, mediaRecorder |-> 0, chunks |-> <<>>,
     timerInterval |-> 0, stopShortcutListener |-> 0,
     attached |-> TRUE, recordingState |-> FALSE]

\* new MediaRecorder(stream, ...), line 182
NewRecorder(s) ==
    [capture |-> s, state |-> "inactive", stopPending |-> FALSE, data |-> "none"]

\* CaptureUI.showRecordingState, lines 111-116
showRecordingState(h, s) == [h EXCEPT !.captures[s].recordingState = TRUE]

\* CaptureUI.destroy, lines 137-141
destroy(h, s) == [h EXCEPT !.captures[s].attached = FALSE]

\* Mutant of stopRecording: the panel is left in the document.
stopRecordingKeepsPanel(h, s) ==
    LET c  == h.captures[s]
        mr == c.mediaRecorder
    IN  IF c.recordingActive
        THEN [h EXCEPT
                !.captures[s].recordingActive = FALSE,
                !.recorders =
                    IF mr # 0 /\ h.recorders[mr].state # "inactive"
                    THEN [@ EXCEPT ![mr].state = "inactive",
                                   ![mr].stopPending = TRUE]
                    ELSE @,
                !.timers = @ \ {c.timerInterval},
                !.keyListeners = @ \ {c.stopShortcutListener}]
        ELSE h

\* Mutant of stopRecording: the stop-shortcut listener stays registered.
stopRecordingKeepsListener(h, s) ==
    LET c  == h.captures[s]
        mr == c.mediaRecorder
        h1 == IF c.recordingActive
              THEN [h EXCEPT
                      !.captures[s].recordingActive = FALSE,
                      !.recorders =
                          IF mr # 0 /\ h.recorders[mr].state # "inactive"
                          THEN [@ EXCEPT ![mr].state = "inactive",
                                         ![mr].stopPending = TRUE]
                          ELSE @]
              ELSE h
        h2 == [h1 EXCEPT !.timers = @ \ {c.timerInterval}]
    IN  destroy(h2, s)

\* AdvancedVideoCapture.stopRecording, lines 202-214.  MediaRecorder.stop()
\* makes the recorder inactive and queues the task that fires dataavailable
\* and stop.
stopRecording(h, s) ==
    LET c  == h.captures[s]
        mr == c.mediaRecorder
        h1 == IF c.recordingActive
              THEN [h EXCEPT
                      !.captures[s].recordingActive = FALSE,
                      !.recorders =
                          IF mr # 0 /\ h.recorders[mr].state # "inactive"
                          THEN [@ EXCEPT ![mr].state = "inactive",
                                         ![mr].stopPending = TRUE]
                          ELSE @]
              ELSE h
        h2 == [h1 EXCEPT !.timers = @ \ {c.timerInterval},
                         !.keyListeners = @ \ {c.stopShortcutListener}]
    IN  destroy(h2, s)

\* The steps of capture setup that may throw: "stream" is captureStream or
\* new MediaRecorder (lines 177-182), "start" is mediaRecorder.start() (188).
Failures == {"none", "stream", "start"}

\* Mutant of startCapture: the catch block sends the message and does not
\* call stopRecording.
startCaptureNoCleanup(h, s, hasVideo, fail) ==
    LET c        == h.captures[s]
        r        == Len(h.recorders) + 1
        shown    == showRecordingState(h, s)
        caught(g) ==
            [g EXCEPT !.sent = Append(@, [type |-> "CAPTURE_ERROR",
                                          url |-> 0, error |-> fail])]
        made     == [shown EXCEPT
                        !.recorders = Append(@, NewRecorder(s)),
                        !.captures[s].mediaRecorder = r,
                        !.captures[s].chunks = <<>>,
                        !.captures[s].recordingActive = TRUE]
        started  == [made EXCEPT
                        !.recorders[r].state = "recording",
                        !.timers = @ \cup {r},
                        !.captures[s].timerInterval = r,
                        !.keyListeners = @ \cup {r},
                        !.captures[s].stopShortcutListener = r]
    IN  CASE c.recordingActive -> h
          [] ~hasVideo         -> h
          [] fail = "stream"   -> caught(shown)
          [] fail = "start"    -> caught(made)
          [] OTHER             -> started

\* AdvancedVideoCapture.startCapture, lines 165-197, with _startTimer
\* (220-236) and _addStopShortcut (242-250).
startCapture(h, s, hasVideo, fail) ==
    LET c        == h.captures[s]
        r        == Len(h.recorders) + 1
        shown    == showRecordingState(h, s)
        caught(g) ==
            stopRecording(
                [g EXCEPT !.sent = Append(@, [type |-> "CAPTURE_ERROR",
                                              url |-> 0, error |-> fail])], s)
        made     == [shown EXCEPT
                        !.recorders = Append(@, NewRecorder(s)),
                        !.captures[s].mediaRecorder = r,
                        !.captures[s].chunks = <<>>,
                        !.captures[s].recordingActive = TRUE]
        started  == [made EXCEPT
                        !.recorders[r].state = "recording",
                        !.timers = @ \cup {r},
                        !.captures[s].timerInterval = r,
                        !.keyListeners = @ \cup {r},
                        !.captures[s].stopShortcutListener = r]
    IN  CASE c.recordingActive -> h
          [] ~hasVideo         -> h               \* alert(...)
          [] fail = "stream"   -> caught(shown)
          [] fail = "start"    -> caught(made)
          [] OTHER             -> started

\* App._createCapture, lines 445-454
_createCapture(h) ==
    [h EXCEPT !.captures = Append(@, NewCapture),
              !.videoCapture = Len(h.captures) + 1]

\* Mutant of _toggleCaptureUI: the session is dropped without being stopped.
_toggleCaptureUINoStop(h) ==
    IF h.videoCapture # 0
    THEN [h EXCEPT !.videoCapture = 0]
    ELSE _createCapture(h)

\* App._toggleCaptureUI, lines 432-439
_toggleCaptureUI(h) ==
    IF h.videoCapture # 0
    THEN [stopRecording(h, h.videoCapture) EXCEPT !.videoCapture = 0]
    ELSE _createCapture(h)

\* Mutant of _handleStartShortcut: no session is created when there is none.
_handleStartShortcutNoCreate(h, hasVideo, fail) ==
    IF h.videoCapture # 0 /\ ~h.captures[h.videoCapture].recordingActive
    THEN startCapture(h, h.videoCapture, hasVideo, fail)
    ELSE h

\* App._handleStartShortcut for Alt+Shift+R, lines 416-426
_handleStartShortcut(h, hasVideo, fail) ==
    LET h1 == IF h.videoCapture = 0 THEN _createCapture(h) ELSE h
    IN  IF ~h1.captures[h1.videoCapture].recordingActive
        THEN startCapture(h1, h1.videoCapture, hasVideo, fail)
        ELSE h1

\* The stop-shortcut listeners ids (in order of registration) handle
\* Ctrl+Shift+X one after the other (lines 243-248); a listener removed
\* meanwhile is not called.
RECURSIVE DispatchStop(_, _)
DispatchStop(h, ids) ==
    IF ids = {} THEN h
    ELSE LET r == Min(ids)
         IN  DispatchStop(IF r \in h.keyListeners
                          THEN stopRecording(h, h.recorders[r].capture)
                          ELSE h,
                          ids \ {r})

(***************************************************************************)
(* What a MediaRecorder delivers.  The recorder is started without a       *)
(* timeslice (line 188), so it delivers its data in one dataavailable      *)
(* event when it stops: nothing ("empty", e.data.size = 0) or a WebM file. *)
(*   "plain"  EBML header and Segment{Info{TimecodeScale, Duration}}       *)
(*   "void"   the same followed by an empty Void element                   *)
(***************************************************************************)
ChunkData == {"plain", "void"}

RecordedDoc(data) ==
    [layout |-> "ebml", seg |-> "sized", info |-> TRUE,
     dur |-> <<69, 156, 64, 0>>, ts |-> <<0, 15, 66, 64>>, durFirst |-> FALSE,
     extra |-> IF data = "void" THEN "tail" ELSE "none", cut |-> 0]

ChunkBytes(data) == DocBytes(RecordedDoc(data))

\* The bytes of new Blob(chunks), line 258
RECURSIVE BlobBytes(_)
BlobBytes(chunks) ==
    IF chunks = <<>> THEN <<>>
    ELSE ChunkBytes(chunks[1].data) \o BlobBytes(Tail(chunks))

(***************************************************************************)
(* Events of the content script and the background script.                 *)
(***************************************************************************)
\* keydown Alt+Shift+R: App._handleStartShortcut (the stop-shortcut
\* listeners ignore the key).  hasVideo: document.querySelector('video')
\* finds an element; fail: the step of capture setup that throws.
KeyDownStartOn(hasVideo, fail) ==
    /\ LET h == _handleStartShortcut(Heap, hasVideo, fail)
       IN  Within(h) /\ Becomes(h)
    /\ UNCHANGED <<saves, inbox, seekerVars, extVars>>

KeyDownStart == \E hasVideo \in BOOLEAN, fail \in Failures : KeyDownStartOn(hasVideo, fail)

\* keydown Ctrl+Shift+X: every registered stop-shortcut listener
\* (App._handleStartShortcut ignores the key).
KeyDownStop ==
    /\ Becomes(DispatchStop(Heap, keyListeners))
    /\ UNCHANGED <<saves, inbox, seekerVars, extVars>>

\* click on the start button of an attached panel (line 447)
ClickStart ==
    /\ \E s \in 1..Len(captures) :
          captures[s].attached /\ ~captures[s].recordingState
    /\ \E hasVideo \in BOOLEAN, fail \in Failures :
          LET h == IF videoCapture = 0 THEN Heap      \* TypeError
                   ELSE startCapture(Heap, videoCapture, hasVideo, fail)
          IN  Within(h) /\ Becomes(h)
    /\ UNCHANGED <<saves, inbox, seekerVars, extVars>>

\* click on the stop button of an attached panel (lines 448-451)
ClickStop ==
    /\ \E s \in 1..Len(captures) :
          captures[s].attached /\ captures[s].recordingState
    /\ Becomes(IF videoCapture = 0 THEN Heap          \* TypeError
               ELSE [stopRecording(Heap, videoCapture) EXCEPT !.videoCapture = 0])
    /\ UNCHANGED <<saves, inbox, seekerVars, extVars>>

\* The interval callback of lines 222-235.  While the session records it
\* writes the timer text and the progress value only, which are not part of
\* the state kept here.
TimerTick ==
    /\ \E t \in timers :
          LET s == recorders[t].capture
          IN  IF ~captures[s].recordingActive
              THEN timers' = timers \ {captures[s].timerInterval}
              ELSE UNCHANGED timers
    /\ UNCHANGED <<videoCapture, captures, recorders, saves, keyListeners,
                   inbox, sent, seekerVars, extVars>>

\* All tracks of the captured stream end (the video ends): the recorder
\* stops by itself, as after stop().
TracksEnded ==
    /\ \E r \in 1..Len(recorders) :
          /\ recorders[r].state = "recording"
          /\ recorders' = [recorders EXCEPT ![r].state = "inactive",
                                            ![r].stopPending = TRUE]
    /\ UNCHANGED <<videoCapture, captures, saves, keyListeners, timers, inbox,
                   sent, seekerVars, extVars>>

\* The task a stopped recorder queued: dataavailable (line 186), then stop
\* (line 187), which runs saveRecording up to its await (lines 255-259).
RecorderTask ==
    /\ \E r \in 1..Len(recorders) :
          /\ recorders[r].stopPending
          /\ \E data \in ChunkData \cup {"empty"} :
                LET s      == recorders[r].capture
                    chunks == IF data # "empty"
                              THEN Append(captures[s].chunks,
                                          [rec |-> r, data |-> data])
                              ELSE captures[s].chunks
                IN  /\ recorders' = [recorders EXCEPT ![r].stopPending = FALSE,
                                                      ![r].data = data]
                    /\ captures' = [captures EXCEPT ![s].chunks = chunks]
                    /\ saves' = IF chunks = <<>> THEN saves
                                ELSE Append(saves,
                                         [capture |-> s, rec |-> r,
                                          blob    |-> chunks,
                                          outcome |-> process(BlobBytes(chunks)).outcome,
                                          state   |-> "awaiting"])
    /\ UNCHANGED <<videoCapture, keyListeners, timers, inbox, sent, seekerVars, extVars>>

\* saveRecording after its await (lines 259-268): process has settled.  The
\* object URL of the message is numbered like the save.
SaveResume ==
    /\ \E k \in 1..Len(saves) :
          /\ saves[k].state = "awaiting"
          /\ IF saves[k].outcome = "throw"
             THEN /\ saves' = [saves EXCEPT ![k].state = "rejected"]
                  /\ UNCHANGED <<sent, captures>>
             ELSE /\ saves' = [saves EXCEPT ![k].state = "sent"]
                  /\ sent' = Append(sent, [type |-> "DOWNLOAD_VIDEO",
                                           url |-> k, error |-> "none"])
                  /\ captures' = [captures EXCEPT ![saves[k].capture].chunks = <<>>]
    /\ UNCHANGED <<videoCapture, recorders, keyListeners, timers, inbox,
                   seekerVars, extVars>>

\* background.js lines 1-4: the toolbar icon is clicked
ActionClicked ==
    /\ Len(inbox) < MaxInbox
    /\ inbox' = Append(inbox, [type |-> "START_CAPTURE_UI"])
    /\ UNCHANGED <<videoCapture, captures, recorders, saves, keyListeners,
                   timers, sent, seekerVars, extVars>>

\* Some part of the extension sends the message App._handleMessage acts on.
ToggleSent ==
    /\ Len(inbox) < MaxInbox
    /\ inbox' = Append(inbox, [type |-> "TOGGLE_CAPTURE_UI"])
    /\ UNCHANGED <<videoCapture, captures, recorders, saves, keyListeners,
                   timers, sent, seekerVars, extVars>>

\* App._handleMessage, lines 406-410
_handleMessage ==
    /\ inbox # <<>>
    /\ LET request == Head(inbox)
           h == IF request.type = "TOGGLE_CAPTURE_UI"
                THEN _toggleCaptureUI(Heap) ELSE Heap
       IN  Within(h) /\ Becomes(h)
    /\ inbox' = Tail(inbox)
    /\ UNCHANGED <<saves, seekerVars, extVars>>

\* No process call is followed step by step here: process is the function.
SeekerIdle ==
    /\ doc = RecordedDoc("plain")
    /\ input = <<>>
    /\ buffer = <<>>
    /\ pc = "start"
    /\ offset = 0
    /\ elements = <<>>
    /\ outcome = "none"
    /\ result = <<>>
    /\ calls = <<>>

AppNext ==
    \/ KeyDownStart \/ KeyDownStop \/ ClickStart \/ ClickStop
    \/ TimerTick \/ TracksEnded \/ RecorderTask \/ SaveResume
    \/ ActionClicked \/ ToggleSent \/ _handleMessage

AppStart == SeekerIdle /\ AppInit /\ ExtInit

AppSpec == AppStart /\ [][AppNext]_vars

\* The browser runs the microtasks it queued: once process has settled, a
\* pending await of saveRecording is resumed.
LiveAppSpec == AppSpec /\ WF_vars(SaveResume)

(***************************************************************************)
(* Definitions the properties of the content script are stated with.       *)
(***************************************************************************)
\* A capture panel is in the document, in heap h.
PanelAttached(h) == \E s \in 1..Len(h.captures) : h.captures[s].attached

\* Some capture session records, in heap h.
RecordingActive(h) == \E s \in 1..Len(h.captures) : h.captures[s].recordingActive

(***************************************************************************)
(* C16  Clicking the toolbar icon toggles the capture panel: the message   *)
(* the background script sends on an action click is of the type           *)
(* App._handleMessage acts on, and handling it flips the presence of the   *)
(* panel.                                                                  *)
(* Violated: background.js line 3 sends START_CAPTURE_UI, line 407 of the  *)
(* content script acts on TOGGLE_CAPTURE_UI only.                          *)
(***************************************************************************)
C16_ActionClickToggles ==
    [][ /\ ActionClicked => inbox'[Len(inbox')].type = "TOGGLE_CAPTURE_UI"
        /\ (_handleMessage /\ Head(inbox).type = "START_CAPTURE_UI")
           => PanelAttached(Heap)' # PanelAttached(Heap) ]_vars

(***************************************************************************)
(* C17  After any sequence of toggle messages, button clicks and keyboard  *)
(* shortcuts, a TOGGLE_CAPTURE_UI message flips the presence of the panel: *)
(* with no panel attached, one is created and attached; with a panel       *)
(* attached, the capture is stopped and the panel removed.  Stated of      *)
(* what _toggleCaptureUI makes of every reachable state.                   *)
(* Violated: Ctrl+Shift+X (line 246) or a failed capture setup (line 195)  *)
(* removes the panel and leaves App.videoCapture set, so the next toggle   *)
(* only drops the session (lines 433-435).                                 *)
(***************************************************************************)
C17_ToggleFlipsPanel ==
    LET h == _toggleCaptureUI(Heap)
    IN  IF PanelAttached(Heap)
        THEN ~PanelAttached(h) /\ ~RecordingActive(h)
        ELSE /\ PanelAttached(h)
             /\ Len(h.captures) = Len(captures) + 1
             /\ h.videoCapture = Len(h.captures)

(***************************************************************************)
(* C18 (as stated)  Alt+Shift+R starts a recording: pressed while no       *)
(* recording is active on a page with a video element, it leaves a capture *)
(* session with recordingActive true and a started MediaRecorder, whether  *)
(* or not a panel or session existed before; pressed while a recording is  *)
(* active it changes nothing.  Stated of what _handleStartShortcut makes   *)
(* of every reachable state.                                               *)
(* Violated: when captureStream, new MediaRecorder or start() throws, line *)
(* 193-196 report the error and stop the session.                          *)
(***************************************************************************)
\* In heap h the App holds a session that records with a started recorder.
Recording(h) ==
    /\ h.videoCapture # 0
    /\ h.captures[h.videoCapture].recordingActive
    /\ h.captures[h.videoCapture].mediaRecorder # 0
    /\ h.recorders[h.captures[h.videoCapture].mediaRecorder].state = "recording"

StartShortcutStarts(fail) ==
    LET h == _handleStartShortcut(Heap, TRUE, fail)
    IN  IF RecordingActive(Heap) THEN h = Heap ELSE Recording(h)

C19_StopShortcut ==
    LET h == DispatchStop(Heap, keyListeners)
    IN  IF RecordingActive(Heap)
        THEN /\ ~RecordingActive(h)
             /\ \A r \in 1..Len(h.recorders) : h.recorders[r].state = "inactive"
             /\ ~PanelAttached(h)
        ELSE h = Heap

\* C19 witness: a session the App still holds was stopped while its panel
\* showed the stop button, and its recorder's stop task is queued: neither
\* the stop button nor a toggle did it (both reset App.videoCapture).
C19_Witness ==
    /\ videoCapture # 0
    /\ ~captures[videoCapture].recordingActive
    /\ captures[videoCapture].mediaRecorder # 0
    /\ recorders[captures[videoCapture].mediaRecorder].stopPending
    /\ sent = <<>>

(***************************************************************************)
(* C20  Every recording that is stopped after a non-empty data chunk was   *)
(* collected eventually results in exactly one DOWNLOAD_VIDEO message to   *)
(* the background script, whatever the recorded bytes are; a recording     *)
(* stopped with no chunks results in no DOWNLOAD_VIDEO message.  The       *)
(* messages of a recording are those sent by the saveRecording call its    *)
(* recorder's stop event made; what is required of a recording is required *)
(* from the time its recorder has delivered.                               *)
(* Violated: saveRecording awaits process without a catch (line 259), so   *)
(* on recorded bytes that make process throw nothing is ever sent; and a   *)
(* recorder that delivered nothing saves a chunk an earlier recorder of    *)
(* the same capture delivered after the restart emptied this.chunks.       *)
(***************************************************************************)
DownloadsOf(r) ==
    Cardinality({i \in 1..Len(sent) :
                    /\ sent[i].type = "DOWNLOAD_VIDEO"
                    /\ saves[sent[i].url].rec = r})

\* Every recording that has delivered a chunk so far has its one message,
\* and no recording that has delivered nothing has one.
RecordingsSaved ==
    \A r \in 1..Len(recorders) :
        /\ recorders[r].data \in ChunkData => DownloadsOf(r) = 1
        /\ recorders[r].data = "empty" => DownloadsOf(r) = 0

\* What a recorder delivered stays, and a message sent stays sent: every
\* recording eventually has its message exactly when, from some time on,
\* all recordings stopped so far have theirs.
C20_OneDownloadPerRecording ==
    /\ [](\A r \in 1..Len(recorders) : DownloadsOf(r) <= 1)
    /\ <>[]RecordingsSaved

(***************************************************************************)
(* C21  The blob saved for a recording session consists of exactly the     *)
(* data chunks delivered by that session's own MediaRecorder, in order, in *)
(* every interleaving of stopRecording, a following startCapture on the    *)
(* same capture instance, the recorder's events and the asynchronous       *)
(* saveRecording: every blob built at line 258 holds the one chunk of the  *)
(* recorder whose stop event built it, and every recorder that delivered a *)
(* chunk has such a blob.                                                  *)
(* Violated: the sessions of one capture instance share this.chunks, and   *)
(* the events of a stopped recorder fire after the restart emptied it.     *)
(***************************************************************************)
C21_BlobIsOwnChunks ==
    /\ \A k \in 1..Len(saves) :
          saves[k].blob = <<[rec  |-> saves[k].rec,
                             data |-> recorders[saves[k].rec].data]>>
    /\ \A r \in 1..Len(recorders) :
          recorders[r].data \in ChunkData =>
              \E k \in 1..Len(saves) : saves[k].rec = r

(***************************************************************************)
(* The earlier background script (src/unnamed/part_000, lines 1-48).  The  *)
(* browser starts a requested download or fails to, calls the callback of  *)
(* chrome.downloads.download back with the id (undefined, here 0, when the *)
(* download did not start), and fires downloads.onChanged events for a     *)
(* started download; it promises no order between the callback and the     *)
(* events.  The id of a download is its number, its URL the number of the  *)
(* message that asked for it (URL.createObjectURL never repeats a URL).    *)
(***************************************************************************)
\* DOWNLOAD_VIDEO messages handled
MaxDownloads == 2

\* onChanged events fired for one download
MaxEvents == 2

\* CAPTURE_ERROR messages handled
MaxNotes == 1

\* Map.prototype.set and Map.prototype.delete on a function
MapSet(m, k, v) == [x \in DOMAIN m \cup {k} |-> IF x = k THEN v ELSE m[x]]

MapDelete(m, k) == [x \in DOMAIN m \ {k} |-> m[x]]

\* delta.state.current of an onChanged event; "none" when delta.state is
\* undefined
DeltaStates == {"none", "in_progress", "interrupted", "complete"}

\* The onChanged listener, lines 40-48, on the Map m and the revocations rv
onChanged(m, rv, delta) ==
    IF delta.state # "none" /\ delta.id \in DOMAIN m
    THEN IF delta.state = "complete" \/ delta.state = "interrupted"
         THEN [objectUrls |-> MapDelete(m, delta.id),
               revoked    |-> Append(rv, m[delta.id])]
         ELSE [objectUrls |-> m, revoked |-> rv]
    ELSE [objectUrls |-> m, revoked |-> rv]

\* The CAPTURE_ERROR branch of the onMessage listener (part_000 lines 28-36,
\* the same in src/background.js lines 16-24), on the notifications made
onMessageError(notes, request) ==
    IF request.type = "CAPTURE_ERROR" THEN Append(notes, request.error) ELSE notes

\* The onMessage listener, lines 9-37
OnMessage ==
    /\ \/ /\ Len(downloads) < MaxDownloads
          /\ downloads' = Append(downloads,
                                 [url |-> Len(downloads) + 1, id |-> 0,
                                  state |-> "requested", callback |-> "pending",
                                  events |-> 0, ended |-> FALSE])
          /\ UNCHANGED notifications
       \/ /\ Len(notifications) < MaxNotes
          /\ \E error \in Failures \ {"none"} :
                notifications' =
                    onMessageError(notifications,
                                   [type |-> "CAPTURE_ERROR", url |-> 0,
                                    error |-> error])
          /\ UNCHANGED downloads
    /\ UNCHANGED <<objectUrls, revoked, seekerVars, appVars, oldVars>>

\* The browser starts a requested download, or fails to
DownloadStarts ==
    /\ \E d \in 1..Len(downloads) :
          /\ downloads[d].state = "requested"
          /\ \E ok \in BOOLEAN :
                downloads' = [downloads EXCEPT
                                 ![d].id = IF ok THEN d ELSE 0,
                                 ![d].state = IF ok THEN "in_progress" ELSE "failed"]
    /\ UNCHANGED <<objectUrls, revoked, notifications, seekerVars, appVars,
                   oldVars>>

\* The callback of chrome.downloads.download, lines 16-25
DownloadCallback ==
    /\ \E d \in 1..Len(downloads) :
          /\ downloads[d].callback = "pending"
          /\ downloads[d].state # "requested"
          /\ downloads' = [downloads EXCEPT ![d].callback = "done"]
          /\ IF downloads[d].id # 0
             THEN /\ objectUrls' = MapSet(objectUrls, downloads[d].id,
                                          downloads[d].url)
                  /\ UNCHANGED revoked
             ELSE /\ revoked' = Append(revoked, downloads[d].url)
                  /\ UNCHANGED objectUrls
    /\ UNCHANGED <<notifications, seekerVars, appVars, oldVars>>

\* The states a download can change to, and "none" for a delta without state
NextStates(state) ==
    CASE state = "in_progress" -> {"none", "complete", "interrupted"}
      [] state = "interrupted" -> {"none", "in_progress"}
      [] OTHER                 -> {"none"}

\* A started download changes and the onChanged listener runs on the delta
DownloadChanges ==
    /\ \E d \in 1..Len(downloads) :
          /\ downloads[d].id # 0
          /\ downloads[d].events < MaxEvents
          /\ \E st \in NextStates(downloads[d].state) :
                LET h == onChanged(objectUrls, revoked, [id |-> d, state |-> st])
                IN  /\ downloads' = [downloads EXCEPT
                          ![d].state  = IF st = "none" THEN @ ELSE st,
                          ![d].events = @ + 1,
                          ![d].ended  = @ \/ st \in {"complete", "interrupted"}]
                    /\ objectUrls' = h.objectUrls
                    /\ revoked' = h.revoked
    /\ UNCHANGED <<notifications, seekerVars, appVars, oldVars>>

BgNext == OnMessage \/ DownloadStarts \/ DownloadCallback \/ DownloadChanges

BgSpec == AppStart /\ [][BgNext]_vars

\* The browser does call a pending callback.
LiveBgSpec == BgSpec /\ WF_vars(DownloadCallback)

(***************************************************************************)
(* C22  In the background script, the object URL of every DOWNLOAD_VIDEO   *)
(* message is eventually revoked once its download fails to start or       *)
(* reaches state complete or interrupted, in every ordering of the         *)
(* download() callback and the onChanged events of that download, and      *)
(* objectUrls holds no entry for it afterwards.                            *)
(* Violated: an onChanged event that reports the end of a download before  *)
(* the callback has stored the URL finds no entry, and the entry the       *)
(* callback stores afterwards is never looked at again.                    *)
(***************************************************************************)
Over(d) == downloads[d].state = "failed" \/ downloads[d].ended

Revoked(url) == \E i \in 1..Len(revoked) : revoked[i] = url

C22_UrlEventuallyRevoked ==
    <>[](\A d \in 1..Len(downloads) :
            Over(d) => /\ Revoked(downloads[d].url)
                       /\ d \notin DOMAIN objectUrls)

(***************************************************************************)
(* C23  In the background script, an object URL is revoked at most once,   *)
(* and objectUrls contains an entry for a download id only between the     *)
(* moment that download started and the first onChanged event reporting it *)
(* complete or interrupted; onChanged events that carry no state change or *)
(* another state leave objectUrls unchanged.                               *)
(* Violated with C22: the callback stores the entry after that event.      *)
(***************************************************************************)
C23_EntryWhileDownloading ==
    /\ \A i, j \in 1..Len(revoked) : i # j => revoked[i] # revoked[j]
    /\ \A id \in DOMAIN objectUrls :
          /\ id \in 1..Len(downloads)
          /\ downloads[id].id = id
          /\ ~downloads[id].ended
    /\ \A d \in 1..Len(downloads), st \in {"none", "in_progress"} :
          onChanged(objectUrls, revoked, [id |-> d, state |-> st]).objectUrls
              = objectUrls

(***************************************************************************)
(* C24  Whenever a capture session has recordingActive true, its panel is  *)
(* attached to the document and in recording state (stop button shown,     *)
(* start button hidden), after any sequence of start/stop button clicks,   *)
(* start/stop shortcuts and toggle messages.                               *)
(* Violated: stopRecording removes the panel but the App keeps the         *)
(* session, and the start shortcut records again with it.                  *)
(***************************************************************************)
C24_RecordingShowsPanel ==
    \A s \in 1..Len(captures) :
        captures[s].recordingActive =>
            captures[s].attached /\ captures[s].recordingState

(***************************************************************************)
(* C25  For every capture session, whenever recordingActive is false no    *)
(* Ctrl+Shift+X keydown listener of that session is registered on the      *)
(* window and its timer interval is not running, and at no time is more    *)
(* than one stop-shortcut listener of a session registered.  Listeners and *)
(* intervals are numbered like the recorder they were set up with.         *)
(***************************************************************************)
ListenersOf(s) == {r \in keyListeners : recorders[r].capture = s}

TimersOf(s) == {t \in timers : recorders[t].capture = s}

C25_NoListenerWhenIdle ==
    \A s \in 1..Len(captures) :
        /\ ~captures[s].recordingActive =>
               ListenersOf(s) = {} /\ TimersOf(s) = {}
        /\ Cardinality(ListenersOf(s)) <= 1

\* C25 witness: a session that recorded twice and was stopped twice has
\* neither listener nor interval left.
C25_Witness ==
    \E s \in 1..Len(captures) :
        /\ ~captures[s].recordingActive
        /\ captures[s].stopShortcutListener = 2
        /\ captures[s].timerInterval = 2
        /\ recorders[1].capture = s
        /\ ListenersOf(s) = {} /\ TimersOf(s) = {}

(***************************************************************************)
(* C26  At any time at most one MediaRecorder created by the content       *)
(* script is in a non-inactive state: startCapture on a session whose      *)
(* recordingActive is true changes nothing, and a session is stopped       *)
(* before the application drops its reference to it or starts another.     *)
(***************************************************************************)
C26_OneActiveRecorder ==
    /\ Cardinality({r \in 1..Len(recorders) :
                        recorders[r].state # "inactive"}) <= 1
    /\ \A s \in 1..Len(captures) :
          /\ captures[s].recordingActive =>
                \A hasVideo \in BOOLEAN, fail \in Failures :
                    startCapture(Heap, s, hasVideo, fail) = Heap
          /\ s # videoCapture =>
                /\ ~captures[s].recordingActive
                /\ captures[s].mediaRecorder # 0 =>
                      recorders[captures[s].mediaRecorder].state = "inactive"

\* C26 witness: a session that recorded was dropped, and the session the
\* application created after it is recording.
C26_Witness ==
    /\ Len(captures) = 2
    /\ videoCapture = 2
    /\ captures[1].mediaRecorder = 1
    /\ recorders[1].state = "inactive"
    /\ captures[2].recordingActive
    /\ recorders[captures[2].mediaRecorder].state = "recording"

(***************************************************************************)
(* C27  If any step of capture setup in startCapture throws, exactly one   *)
(* CAPTURE_ERROR message carrying the error text is sent, and afterwards   *)
(* the session has recordingActive false, no active MediaRecorder, no      *)
(* running timer, no stop-shortcut listener, and its panel is removed; the *)
(* background script turns each CAPTURE_ERROR message into exactly one     *)
(* notification.  Stated of what startCapture makes of the present state   *)
(* for every step that can throw, and of what the background's listener    *)
(* makes of the message sent.                                              *)
(***************************************************************************)
SetupThrew(s, fail) ==
    LET h   == startCapture(Heap, s, TRUE, fail)
        c   == h.captures[s]
        msg == [type |-> "CAPTURE_ERROR", url |-> 0, error |-> fail]
    IN  /\ h.sent = Append(sent, msg)
        /\ ~c.recordingActive
        /\ \A r \in 1..Len(h.recorders) :
              h.recorders[r].capture = s => h.recorders[r].state = "inactive"
        /\ \A t \in h.timers : h.recorders[t].capture # s
        /\ \A l \in h.keyListeners : h.recorders[l].capture # s
        /\ ~c.attached
        /\ onMessageError(notifications, h.sent[Len(h.sent)])
              = Append(notifications, fail)
        /\ \A i \in 1..Len(sent) :
              onMessageError(notifications, sent[i]) =
                  IF sent[i].type = "CAPTURE_ERROR"
                  THEN Append(notifications, sent[i].error)
                  ELSE notifications

C27_SetupErrorCleansUp ==
    \A s \in 1..Len(captures), fail \in Failures \ {"none"} :
        ~captures[s].recordingActive => SetupThrew(s, fail)

\* C27 witness: mediaRecorder.start() threw in a session that had recorded
\* before; its message is sent, and the session is idle without its panel.
C27_Witness ==
    /\ videoCapture # 0
    /\ Len(recorders) = 2
    /\ recorders[1].capture = videoCapture
    /\ recorders[2].capture = videoCapture
    /\ recorders[2].data = "none" /\ ~recorders[2].stopPending
    /\ sent # <<>>
    /\ sent[Len(sent)] = [type |-> "CAPTURE_ERROR", url |-> 0, error |-> "start"]
    /\ ~captures[videoCapture].recordingActive
    /\ ~captures[videoCapture].attached

(***************************************************************************)
(* The earlier content script (src/unnamed/part_000).  Its methods, on the *)
(* record o of its state; the events are the START_CAPTURE_UI message, the *)
(* clicks on the buttons of an attached panel, Ctrl+Shift+S and the end of *)
(* the captured video.                                                     *)
(***************************************************************************)
\* AdvancedVideoCapture objects created
MaxOldCaptures == 3

OldHeap == [videoCapture |-> oldVideoCapture, captures |-> oldCaptures,
            keyListeners |-> oldKeyListeners]

OldBecomes(o) ==
    /\ oldVideoCapture' = o.videoCapture
    /\ oldCaptures' = o.captures
    /\ oldKeyListeners' = o.keyListeners

\* stopRecording, part_000 lines 230-245
oldStopRecording(o, s) ==
    IF ~o.captures[s].recordingActive THEN o
    ELSE [o EXCEPT !.captures[s].recordingActive = FALSE,
                   !.captures[s].recorder =
                       IF @ = "recording" THEN "inactive" ELSE @,
                   !.captures[s].captureUI = FALSE]

\* startCapture, part_000 lines 146-228
oldStartCapture(o, s, hasVideo, fail) ==
    LET shown   == [o EXCEPT !.captures[s].stopShown = TRUE]
        made    == [shown EXCEPT !.captures[s].recorder = "inactive",
                                 !.captures[s].recordingActive = TRUE]
        started == [made EXCEPT !.captures[s].recorder = "recording",
                                !.keyListeners = @ \cup {s}]
    IN  CASE ~hasVideo       -> o
          [] fail = "stream" -> oldStopRecording(shown, s)
          [] fail = "start"  -> oldStopRecording(made, s)
          [] OTHER           -> started

\* new AdvancedVideoCapture() and createCaptureUI(), lines 50-62 and 64-144
oldCreate(o) ==
    [o EXCEPT !.captures = Append(@, [recordingActive |-> FALSE,
                                      captureUI |-> TRUE, stopShown |-> FALSE,
                                      recorder |-> "null"]),
              !.videoCapture = Len(o.captures) + 1]

\* The onMessage listener for START_CAPTURE_UI, lines 425-436
oldOnStartCaptureUI(o) ==
    oldCreate(IF o.videoCapture # 0
              THEN oldStopRecording(o, o.videoCapture) ELSE o)

\* The stopRecordingShortcut listeners of lines 212-219, one after another
RECURSIVE OldDispatchStop(_, _)
OldDispatchStop(o, ids) ==
    IF ids = {} THEN o
    ELSE LET s == CHOOSE x \in ids : TRUE
         IN  OldDispatchStop([oldStopRecording(o, s) EXCEPT
                                 !.keyListeners = @ \ {s}], ids \ {s})

OldStartCaptureUI ==
    /\ Len(oldCaptures) < MaxOldCaptures
    /\ OldBecomes(oldOnStartCaptureUI(OldHeap))
    /\ UNCHANGED <<seekerVars, appVars, bgVars>>

\* click on the start button of an attached panel (line 142)
OldClickStart ==
    /\ \E s \in 1..Len(oldCaptures) :
          /\ oldCaptures[s].captureUI /\ ~oldCaptures[s].stopShown
          /\ \E hasVideo \in BOOLEAN, fail \in Failures :
                OldBecomes(oldStartCapture(OldHeap, s, hasVideo, fail))
    /\ UNCHANGED <<seekerVars, appVars, bgVars>>

\* click on the stop button of an attached panel (line 143)
OldClickStop ==
    /\ \E s \in 1..Len(oldCaptures) :
          /\ oldCaptures[s].captureUI /\ oldCaptures[s].stopShown
          /\ OldBecomes(oldStopRecording(OldHeap, s))
    /\ UNCHANGED <<seekerVars, appVars, bgVars>>

\* keydown Ctrl+Shift+S
OldKeyDownStop ==
    /\ oldKeyListeners # {}
    /\ OldBecomes(OldDispatchStop(OldHeap, oldKeyListeners))
    /\ UNCHANGED <<seekerVars, appVars, bgVars>>

\* The captured video ends: the recorder stops by itself.
OldTracksEnded ==
    /\ \E s \in 1..Len(oldCaptures) :
          /\ oldCaptures[s].recorder = "recording"
          /\ oldCaptures' = [oldCaptures EXCEPT ![s].recorder = "inactive"]
    /\ UNCHANGED <<oldVideoCapture, oldKeyListeners, seekerVars, appVars, bgVars>>

OldNext ==
    \/ OldStartCaptureUI \/ OldClickStart \/ OldClickStop
    \/ OldKeyDownStop \/ OldTracksEnded

OldSpec == AppStart /\ [][OldNext]_vars

(***************************************************************************)
(* C28  In the earlier content script, handling START_CAPTURE_UI ensures   *)
(* any previous capture is stopped and its panel removed before the new    *)
(* session's panel is created, so that after any sequence of               *)
(* START_CAPTURE_UI messages and recordings at most one capture panel is   *)
(* attached to the document.                                               *)
(* Violated: stopRecording returns at once when the previous capture is    *)
(* not recording, and its panel stays.                                     *)
(***************************************************************************)
OldPanels(o) == {s \in 1..Len(o.captures) : o.captures[s].captureUI}

C28_OnePanel ==
    /\ Cardinality(OldPanels(OldHeap)) <= 1
    /\ LET o == oldOnStartCaptureUI(OldHeap)
       IN  oldVideoCapture # 0 =>
              /\ ~o.captures[oldVideoCapture].recordingActive
              /\ ~o.captures[oldVideoCapture].captureUI

(***************************************************************************)
(* C29  The outcome of process does not depend on element order: for       *)
(* buffers that differ only in the relative order of Duration and          *)
(* TimecodeScale, or in unrelated (unknown) elements placed before,        *)
(* between or after them, the same corrected duration is written into the  *)
(* Duration payload.  Stated of the complete buffers that hold both        *)
(* elements: when a call of process is over, process ends alike, and with  *)
(* the same bytes in the Duration payload, on every reordering of the      *)
(* document.                                                               *)
(***************************************************************************)
\* The documents that differ from d in the order of Duration and
\* TimecodeScale and in the unrelated elements around them only
Reordered(d) ==
    {e \in Docs : /\ e.layout = d.layout /\ e.seg = d.seg /\ e.info = d.info
                  /\ e.dur = d.dur /\ e.ts = d.ts /\ e.cut = d.cut}

\* How a call on the bytes of d ended, and the Duration payload of the
\* blob it returned when it patched one
Written(d, out, res) ==
    [outcome  |-> out,
     duration |-> IF out = "patched"
                  THEN SubSeq(res, DurationPayloadOffset(d) + 1,
                              DurationPayloadOffset(d) + Len(d.dur))
                  ELSE <<>>]

C29_OrderIndependent ==
    (FirstDone /\ doc.cut = 0 /\ HasDurationAndScale(doc)) =>
        \A e \in Reordered(doc) :
            LET p == process(DocBytes(e))
            IN  Written(e, p.outcome, p.result) = Written(doc, outcome, result)

====
